---- MODULE Spec2Model ----
(***************************************************************************)
(* Fault classification and HTTP error responses of the Express starter:   *)
(* the AppError hierarchy, asyncHandler, errorHandler, notFoundHandler,    *)
(* the process-level handlers and the middleware chain of index.ts.        *)
(***************************************************************************)
EXTENDS Integers, Sequences, FiniteSets, TLC

VARIABLES
    environ,     \* process.env, as getEnv reads it
    Env,         \* the Env object of env.config.ts, NoEnv until it is loaded
    NODE_ENV,    \* Env.NODE_ENV, read once when the configuration is loaded
    pc,          \* where the current request (or construction) stands
    call,        \* the `new X(...)` call that made `thrown`, or NoCall
    thrown,      \* the value raised / passed to next(err)
    req,         \* the request: method, originalUrl and the instant it is served
    script,      \* what the controller of the current request does
    res,         \* the writes made to the response, in order
    nextCalls,   \* the values asyncHandler's catch passed to next, in order
    chainCalls,  \* the middlewares Express ran for the request, in order
    proc,        \* "importing", "loading", "running" or "exited"
    exitCode,    \* the status process.exit was called with (NoExit before)
    listeners,   \* process.on registrations, per event
    timers,      \* pending setTimeout exit timers: delay and time waited of each
    lastEvent,   \* the last process event emitted and how many listeners ran
    inflight     \* detached asynchronous work of controllers that may still fail

vars == <<environ, Env, NODE_ENV, pc, call, thrown, req, script, res, nextCalls, chainCalls,
          proc, exitCode, listeners, timers, lastEvent, inflight>>

cfgVars == <<environ, Env, NODE_ENV>>
reqVars == <<pc, call, thrown, req, script, res, nextCalls, chainCalls>>
procVars == <<proc, exitCode, listeners, timers, lastEvent>>

----------------------------------------------------------------------------
(* Bounds of the model *)

\* how many per-field errors a data-layer validation failure carries at most
MaxFieldErrors == 2
\* how many listeners of one event are added after startup
MaxRegistrations == 1
\* how many operations that nothing awaits can be pending at once
MaxInflight == 1
\* how many exit timers can be pending at once
MaxTimers == 3

----------------------------------------------------------------------------
(* JavaScript values *)

Undef == [kind |-> "undefined"]
Null == [kind |-> "null"]
ObjectOf(f) == [kind |-> "object", fields |-> f]
ArrayOf(s) == [kind |-> "array", items |-> s]

\* the property name of array index i (0-based), as Object spread produces it
IndexKey(i) == <<"0", "1", "2", "3">>[i + 1]

\* {...v}: the own enumerable properties of v; none for undefined and null
Spread(v) ==
    CASE v.kind = "object" -> v.fields
      [] v.kind = "array" ->
            [k \in {IndexKey(i - 1) : i \in 1..Len(v.items)} |->
                v.items[CHOOSE i \in 1..Len(v.items) : IndexKey(i - 1) = k]]
      [] OTHER -> <<>>

\* new Date().toISOString() of the instants the model distinguishes
Instants == {"2024-01-15T10:30:00.000Z"}

----------------------------------------------------------------------------
(* configs/http.config.ts: the members of HTTPSTATUS the sources use *)

HTTPSTATUS ==
    [OK |-> 200,
     BAD_REQUEST |-> 400,
     UNAUTHORIZED |-> 401,
     FORBIDDEN |-> 403,
     NOT_FOUND |-> 404,
     METHOD_NOT_ALLOWED |-> 405,
     CONFLICT |-> 409,
     UNPROCESSABLE_ENTITY |-> 422,
     TOO_MANY_REQUESTS |-> 429,
     INTERNAL_SERVER_ERROR |-> 500,
     NOT_IMPLEMENTED |-> 501,
     BAD_GATEWAY |-> 502,
     SERVICE_UNAVAILABLE |-> 503,
     GATEWAY_TIMEOUT |-> 504]

\* HttpStatusCodeType: the values of HTTPSTATUS
HttpStatusCodeType == {HTTPSTATUS[k] : k \in DOMAIN HTTPSTATUS}

(* common/enums/error-code.enum.ts *)
ErrorCodeEnum ==
    {"USR_400", "USR_404", "USR_405", "USR_409", "USR_422",
     "AUTH_401", "AUTH_403", "AUTH_USER_NOT_FOUND", "AUTH_EMAIL_ALREADY_EXISTS",
     "AUTH_INVALID_TOKEN", "AUTH_TOKEN_NOT_FOUND", "AUTH_TOKEN_EXPIRED",
     "AUTH_INVALID_CREDENTIALS", "AUTH_ACCOUNT_LOCKED", "AUTH_ACCOUNT_DISABLED",
     "AUTH_INSUFFICIENT_PERMISSIONS",
     "VAL_400", "VAL_REQUIRED_FIELD", "VAL_INVALID_FORMAT", "VAL_INVALID_TYPE",
     "VAL_OUT_OF_RANGE", "VAL_DUPLICATE_VALUE",
     "RATE_429", "RATE_LIMIT_EXCEEDED",
     "DB_500", "DB_CONNECTION_ERROR", "DB_QUERY_ERROR", "DB_TRANSACTION_ERROR",
     "DB_DUPLICATE_KEY", "DB_VALIDATION_ERROR", "DB_NOT_FOUND",
     "EXT_502", "EXT_503", "EXT_504", "EXT_API_ERROR", "EXT_SERVICE_UNAVAILABLE",
     "EXT_TIMEOUT",
     "SRV_500", "SRV_501", "SRV_INTERNAL_ERROR", "SRV_UNHANDLED_ERROR",
     "FILE_UPLOAD_ERROR", "FILE_TOO_LARGE", "FILE_INVALID_TYPE",
     "FILE_UPLOAD_FAILED"}

----------------------------------------------------------------------------
\* Thrown values.  One record shape for every value that can be thrown:
\*   proto    what instanceof sees: "AppError" (the class or a subclass),
\*            "ValidationError", "CastError" (the mongoose error classes),
\*            "SyntaxError", "Error" (any other Error), "NonError"
\*   has      the extra own properties the `in` operator finds
\*   code     "num:<n>" for a number, "str:<s>" for a string
\*   truthy   FALSE for null, undefined, 0 and ""

JsValue(proto, name, message) ==
    [proto |-> proto, name |-> name, message |-> message, stack |-> "",
     has |-> {}, code |-> "", statusCode |-> 0, body |-> FALSE,
     keyPattern |-> <<>>, errors |-> <<>>, path |-> "", value |-> "",
     errorCode |-> "", details |-> Undef, isOperational |-> FALSE,
     timestamp |-> "", truthy |-> TRUE]

NoFault == JsValue("none", "", "")

IsError(e) == e.proto \in {"AppError", "ValidationError", "CastError", "SyntaxError", "Error"}

\* Error.captureStackTrace / the stack V8 gives an Error at construction
StackOf(name, message) == name \o ": " \o message \o "\n    at <anonymous>"

(* common/utils/app-error.ts *)

\* the arguments of a constructor call: `given` names the parameters that were
\* passed (and not undefined); the others take the parameter's default
Arg(a, k, default) == IF k \in a.given THEN a[k] ELSE default

\* class AppError extends Error: constructor(message, statusCode, errorCode, details)
AppError(className, a, now) ==
    LET message == Arg(a, "message", "")
    IN  [JsValue("AppError", className, message) EXCEPT
            !.statusCode = Arg(a, "statusCode", HTTPSTATUS.INTERNAL_SERVER_ERROR),
            !.errorCode = Arg(a, "errorCode", "SRV_500"),
            !.details = Arg(a, "details", Undef),
            !.isOperational = TRUE,
            !.timestamp = now,
            !.stack = StackOf(className, message),
            !.has = {"statusCode"}]

\* what every subclass constructor does: default the message and the code,
\* fix the status, and call super(message, status, errorCode, details)
SubclassOfAppError(className, defaultMessage, status, defaultCode, a, now) ==
    AppError(className,
             [given |-> {"message", "statusCode", "errorCode", "details"},
              message |-> Arg(a, "message", defaultMessage),
              statusCode |-> status,
              errorCode |-> Arg(a, "errorCode", defaultCode),
              details |-> Arg(a, "details", Undef)],
             now)

BadRequestException(a, now) ==
    SubclassOfAppError("BadRequestException",
        "The request is invalid or malformed",
        HTTPSTATUS.BAD_REQUEST, "USR_400", a, now)

UnauthorizedException(a, now) ==
    SubclassOfAppError("UnauthorizedException",
        "Authentication required. Please provide valid credentials",
        HTTPSTATUS.UNAUTHORIZED, "AUTH_401", a, now)

ForbiddenException(a, now) ==
    SubclassOfAppError("ForbiddenException",
        "You do not have permission to access this resource",
        HTTPSTATUS.FORBIDDEN, "AUTH_403", a, now)

NotFoundException(a, now) ==
    SubclassOfAppError("NotFoundException",
        "The requested resource was not found",
        HTTPSTATUS.NOT_FOUND, "USR_404", a, now)

MethodNotAllowedException(a, now) ==
    SubclassOfAppError("MethodNotAllowedException",
        "The HTTP method is not allowed for this endpoint",
        HTTPSTATUS.METHOD_NOT_ALLOWED, "USR_405", a, now)

ConflictException(a, now) ==
    SubclassOfAppError("ConflictException",
        "The request conflicts with the current state of the resource",
        HTTPSTATUS.CONFLICT, "USR_409", a, now)

UnprocessableEntityException(a, now) ==
    SubclassOfAppError("UnprocessableEntityException",
        "The request is well-formed but contains semantic errors",
        HTTPSTATUS.UNPROCESSABLE_ENTITY, "USR_422", a, now)

TooManyRequestsException(a, now) ==
    SubclassOfAppError("TooManyRequestsException",
        "Too many requests. Please try again later",
        HTTPSTATUS.TOO_MANY_REQUESTS, "RATE_429", a, now)

\* a slip: the default code of the class above it
ValidationExceptionWithClientCode(a, now) ==
    SubclassOfAppError("ValidationException",
        "Validation failed. Please check your input",
        HTTPSTATUS.BAD_REQUEST, "USR_400", a, now)

ValidationException(a, now) ==
    SubclassOfAppError("ValidationException",
        "Validation failed. Please check your input",
        HTTPSTATUS.BAD_REQUEST, "VAL_400", a, now)

AuthenticationException(a, now) ==
    SubclassOfAppError("AuthenticationException",
        "Authentication failed. Please check your credentials",
        HTTPSTATUS.UNAUTHORIZED, "AUTH_401", a, now)

AuthorizationException(a, now) ==
    SubclassOfAppError("AuthorizationException",
        "You do not have permission to perform this action",
        HTTPSTATUS.FORBIDDEN, "AUTH_403", a, now)

DatabaseException(a, now) ==
    SubclassOfAppError("DatabaseException",
        "A database error occurred. Please try again later",
        HTTPSTATUS.INTERNAL_SERVER_ERROR, "DB_500", a, now)

DatabaseConnectionException(a, now) ==
    SubclassOfAppError("DatabaseConnectionException",
        "Unable to connect to the database. Please try again later",
        HTTPSTATUS.SERVICE_UNAVAILABLE, "DB_CONNECTION_ERROR", a, now)

ExternalServiceException(a, now) ==
    SubclassOfAppError("ExternalServiceException",
        "An external service error occurred. Please try again later",
        HTTPSTATUS.BAD_GATEWAY, "EXT_API_ERROR", a, now)

ServiceUnavailableException(a, now) ==
    SubclassOfAppError("ServiceUnavailableException",
        "The service is temporarily unavailable. Please try again later",
        HTTPSTATUS.SERVICE_UNAVAILABLE, "EXT_503", a, now)

GatewayTimeoutException(a, now) ==
    SubclassOfAppError("GatewayTimeoutException",
        "The request timed out. Please try again later",
        HTTPSTATUS.GATEWAY_TIMEOUT, "EXT_504", a, now)

InternalServerException(a, now) ==
    SubclassOfAppError("InternalServerException",
        "An internal server error occurred. Please try again later",
        HTTPSTATUS.INTERNAL_SERVER_ERROR, "SRV_500", a, now)

NotImplementedException(a, now) ==
    SubclassOfAppError("NotImplementedException",
        "This feature is not yet implemented",
        HTTPSTATUS.NOT_IMPLEMENTED, "SRV_501", a, now)

\* the 18 subclasses of AppError
Variants ==
    {"BadRequestException",
     "UnauthorizedException",
     "ForbiddenException",
     "NotFoundException",
     "MethodNotAllowedException",
     "ConflictException",
     "UnprocessableEntityException",
     "TooManyRequestsException",
     "ValidationException",
     "AuthenticationException",
     "AuthorizationException",
     "DatabaseException",
     "DatabaseConnectionException",
     "ExternalServiceException",
     "ServiceUnavailableException",
     "GatewayTimeoutException",
     "InternalServerException",
     "NotImplementedException"}

\* new <className>(...a)
New(className, a, now) ==
    CASE className = "AppError" -> AppError("AppError", a, now)
      [] className = "BadRequestException" -> BadRequestException(a, now)
      [] className = "UnauthorizedException" -> UnauthorizedException(a, now)
      [] className = "ForbiddenException" -> ForbiddenException(a, now)
      [] className = "NotFoundException" -> NotFoundException(a, now)
      [] className = "MethodNotAllowedException" -> MethodNotAllowedException(a, now)
      [] className = "ConflictException" -> ConflictException(a, now)
      [] className = "UnprocessableEntityException" -> UnprocessableEntityException(a, now)
      [] className = "TooManyRequestsException" -> TooManyRequestsException(a, now)
      [] className = "ValidationException" -> ValidationException(a, now)
      [] className = "AuthenticationException" -> AuthenticationException(a, now)
      [] className = "AuthorizationException" -> AuthorizationException(a, now)
      [] className = "DatabaseException" -> DatabaseException(a, now)
      [] className = "DatabaseConnectionException" -> DatabaseConnectionException(a, now)
      [] className = "ExternalServiceException" -> ExternalServiceException(a, now)
      [] className = "ServiceUnavailableException" -> ServiceUnavailableException(a, now)
      [] className = "GatewayTimeoutException" -> GatewayTimeoutException(a, now)
      [] className = "InternalServerException" -> InternalServerException(a, now)
      [] className = "NotImplementedException" -> NotImplementedException(a, now)

----------------------------------------------------------------------------
(* middlewares/errorHandler.middleware.ts *)

\* a slip: the property is read without testing that it is there
InWithoutTest(k, err) == TRUE

\* `"k" in err`: a primitive has no properties to test, an object has the
\* ones listed in `has`
In(k, err) == k \in err.has

JwtNames == {"JsonWebTokenError", "TokenExpiredError"}
UploadCodes == {"str:LIMIT_FILE_SIZE", "str:LIMIT_FILE_COUNT", "str:LIMIT_UNEXPECTED_FILE"}
NetworkNames == {"ECONNREFUSED", "ETIMEDOUT", "ENOTFOUND"}

\* a slip: the locals start with an empty message
DefaultsWithoutMessage(err) ==
    [error |-> err,
     statusCode |-> HTTPSTATUS.INTERNAL_SERVER_ERROR,
     errorCode |-> "SRV_500",
     message |-> "",
     details |-> Undef]

\* the values of the locals before the cascade runs
Defaults(err) ==
    [error |-> err,
     statusCode |-> HTTPSTATUS.INTERNAL_SERVER_ERROR,
     errorCode |-> "SRV_500",
     message |-> "An unexpected error occurred",
     details |-> Undef]

\* a slip: the entries in the reverse of the order of err.errors
FieldErrorsReversed(err) ==
    ArrayOf([i \in 1..Len(err.errors) |->
                [field |-> err.errors[Len(err.errors) + 1 - i].path,
                 message |-> err.errors[Len(err.errors) + 1 - i].message]])

\* Object.values(err.errors).map((e) => ({ field: e.path, message: e.message }))
FieldErrors(err) ==
    ArrayOf([i \in 1..Len(err.errors) |->
                [field |-> err.errors[i].path, message |-> err.errors[i].message]])

\* the condition of the k-th branch of the if / else-if cascade, k in 1..9
Test(k, err) ==
    CASE k = 1 -> err.proto = "AppError"
      [] k = 2 -> err.proto = "ValidationError"
      [] k = 3 -> err.proto = "CastError"
      [] k = 4 -> IsError(err) /\ In("code", err) /\ err.code = "num:11000"
      [] k = 5 -> err.proto = "SyntaxError" /\ In("body", err)
      [] k = 6 -> IsError(err) /\ err.name \in JwtNames
      [] k = 7 -> IsError(err) /\ In("statusCode", err)
                  /\ err.statusCode = HTTPSTATUS.TOO_MANY_REQUESTS
      [] k = 8 -> IsError(err) /\ In("code", err) /\ err.code \in UploadCodes
      [] k = 9 -> IsError(err) /\ err.name \in NetworkNames

\* the locals after the body of the k-th branch ran; for k = 10 after the
\* last branch (`else if (err instanceof Error)`) or, when its test fails
\* too, the untouched defaults
Outcome(k, err) ==
    LET d == Defaults(err) IN
    CASE k = 1 ->
        [d EXCEPT !.statusCode = err.statusCode, !.errorCode = err.errorCode,
                  !.message = err.message, !.details = err.details]
      [] k = 2 ->
        [d EXCEPT !.statusCode = HTTPSTATUS.BAD_REQUEST,
                  !.errorCode = "DB_VALIDATION_ERROR",
                  !.message = "Validation failed",
                  !.details = FieldErrors(err)]
      [] k = 3 ->
        [d EXCEPT !.statusCode = HTTPSTATUS.BAD_REQUEST,
                  !.errorCode = "VAL_INVALID_FORMAT",
                  !.message = "Invalid " \o err.path \o ": " \o err.value]
      [] k = 4 ->
        [d EXCEPT !.statusCode = HTTPSTATUS.CONFLICT,
                  !.errorCode = "DB_DUPLICATE_KEY",
                  !.message = "A resource with this value already exists",
                  !.details = IF In("keyPattern", err)
                              THEN ObjectOf([duplicateFields |-> err.keyPattern])
                              ELSE Undef]
      [] k = 5 ->
        [d EXCEPT !.statusCode = HTTPSTATUS.BAD_REQUEST,
                  !.errorCode = "VAL_400",
                  !.message = "Invalid JSON in request body"]
      [] k = 6 ->
        [d EXCEPT !.statusCode = HTTPSTATUS.UNAUTHORIZED,
                  !.errorCode = "AUTH_INVALID_TOKEN",
                  !.message = IF err.name = "TokenExpiredError"
                              THEN "Your session has expired. Please log in again"
                              ELSE "Invalid authentication token"]
      [] k = 7 ->
        [d EXCEPT !.statusCode = HTTPSTATUS.TOO_MANY_REQUESTS,
                  !.errorCode = "RATE_429",
                  !.message = "Too many requests. Please try again later"]
      [] k = 8 ->
        [d EXCEPT !.statusCode = HTTPSTATUS.BAD_REQUEST,
                  !.errorCode = "FILE_UPLOAD_ERROR",
                  !.message = IF err.code = "str:LIMIT_FILE_SIZE"
                              THEN "File size exceeds the maximum allowed limit"
                              ELSE "File upload error"]
      [] k = 9 ->
        [d EXCEPT !.statusCode = HTTPSTATUS.SERVICE_UNAVAILABLE,
                  !.errorCode = "EXT_SERVICE_UNAVAILABLE",
                  !.message = "External service is unavailable. Please try again later"]
      [] k = 10 ->
        IF IsError(err)
        THEN [d EXCEPT !.message = IF err.message # "" THEN err.message ELSE d.message]
        ELSE d

\* a slip in the order of the branches: the duplicate-key test ahead of the
\* instanceof tests
ClassifyDuplicateKeyFirst(err) ==
    IF Test(4, err) THEN Outcome(4, err)
    ELSE IF Test(1, err) THEN Outcome(1, err)
    ELSE IF Test(2, err) THEN Outcome(2, err)
    ELSE IF Test(3, err) THEN Outcome(3, err)
    ELSE IF Test(5, err) THEN Outcome(5, err)
    ELSE IF Test(6, err) THEN Outcome(6, err)
    ELSE IF Test(7, err) THEN Outcome(7, err)
    ELSE IF Test(8, err) THEN Outcome(8, err)
    ELSE IF Test(9, err) THEN Outcome(9, err)
    ELSE Outcome(10, err)

\* a slip in the order of the branches: the rate-limit test ahead of the
\* signed-token test
ClassifyRateLimitBeforeToken(err) ==
    IF Test(1, err) THEN Outcome(1, err)
    ELSE IF Test(2, err) THEN Outcome(2, err)
    ELSE IF Test(3, err) THEN Outcome(3, err)
    ELSE IF Test(4, err) THEN Outcome(4, err)
    ELSE IF Test(5, err) THEN Outcome(5, err)
    ELSE IF Test(7, err) THEN Outcome(7, err)
    ELSE IF Test(6, err) THEN Outcome(6, err)
    ELSE IF Test(8, err) THEN Outcome(8, err)
    ELSE IF Test(9, err) THEN Outcome(9, err)
    ELSE Outcome(10, err)

\* the if / else-if cascade: the locals after it
Classify(err) ==
    IF Test(1, err) THEN Outcome(1, err)
    ELSE IF Test(2, err) THEN Outcome(2, err)
    ELSE IF Test(3, err) THEN Outcome(3, err)
    ELSE IF Test(4, err) THEN Outcome(4, err)
    ELSE IF Test(5, err) THEN Outcome(5, err)
    ELSE IF Test(6, err) THEN Outcome(6, err)
    ELSE IF Test(7, err) THEN Outcome(7, err)
    ELSE IF Test(8, err) THEN Outcome(8, err)
    ELSE IF Test(9, err) THEN Outcome(9, err)
    ELSE Outcome(10, err)

\* a slip: the stack trace is withheld in production only
IncludesStackUnlessProduction(error, env) ==
    env # "production" /\ IsError(error) /\ error.stack # ""

\* the stack trace is added only in development, for an Error that has one
IncludesStack(error, env) ==
    env = "development" /\ IsError(error) /\ error.stack # ""

\* a slip: details assigned whether or not the cascade produced them
ErrorResponseAlwaysDetails(c, request, env) ==
    [errorName |-> IF c.error.name # "" THEN c.error.name ELSE "Error",
     errorCode |-> c.errorCode,
     httpStatus |-> c.statusCode,
     message |-> c.message,
     timestamp |-> request.now,
     path |-> request.originalUrl,
     details |-> IF IncludesStack(c.error, env)
                 THEN ObjectOf(Spread(c.details) @@ [stack |-> c.error.stack])
                 ELSE IF c.details = Undef THEN Null ELSE c.details]

\* errorResponse, as res.json serialises it: `details` is a key of the body
\* only when it was assigned
ErrorResponse(c, request, env) ==
    LET base == [errorName |-> IF c.error.name # "" THEN c.error.name ELSE "Error",
                 errorCode |-> c.errorCode,
                 httpStatus |-> c.statusCode,
                 message |-> c.message,
                 timestamp |-> request.now,
                 path |-> request.originalUrl]
        withDetails == IF c.details # Undef THEN base @@ [details |-> c.details]
                       ELSE base
        carried == IF "details" \in DOMAIN withDetails THEN withDetails.details
                   ELSE Undef
    IN  IF IncludesStack(c.error, env)
        THEN [k \in DOMAIN base \cup {"details"} |->
                IF k = "details"
                THEN ObjectOf(Spread(carried) @@ [stack |-> c.error.stack])
                ELSE base[k]]
        ELSE withDetails

\* errorHandler(err, req, res, _next): the write res.status(statusCode).json(errorResponse)
errorHandler(err, request, env) ==
    LET c == Classify(err)
    IN  [by |-> "errorHandler", status |-> c.statusCode,
         body |-> ErrorResponse(c, request, env)]

(* middlewares/notFound.middleware.ts *)

\* a slip: the path of the request in place of its URL
notFoundHandlerWithPath(request) ==
    [by |-> "notFoundHandler", status |-> HTTPSTATUS.NOT_FOUND,
     body |-> [errorName |-> "NotFoundError",
               errorCode |-> "USR_404",
               httpStatus |-> HTTPSTATUS.NOT_FOUND,
               message |-> "The requested endpoint " \o request.method \o " "
                           \o request.path \o " was not found",
               timestamp |-> request.now,
               path |-> request.path]]

\* notFoundHandler(req, res, _next): the write it makes
notFoundHandler(request) ==
    [by |-> "notFoundHandler", status |-> HTTPSTATUS.NOT_FOUND,
     body |-> [errorName |-> "NotFoundError",
               errorCode |-> "USR_404",
               httpStatus |-> HTTPSTATUS.NOT_FOUND,
               message |-> "The requested endpoint " \o request.method \o " "
                           \o request.originalUrl \o " was not found",
               timestamp |-> request.now,
               path |-> request.originalUrl]]

----------------------------------------------------------------------------
(* The inputs the model draws from *)

Envs == {"development", "production", "test"}

Methods == {"GET", "HEAD", "POST"}
Paths == {"/", "/health", "/nope"}
Queries == {"", "?full=1"}

\* req: originalUrl is the path with the query string
Request(method, path, query, now) ==
    [method |-> method, path |-> path, originalUrl |-> path \o query, now |-> now]
Requests ==
    {Request(m, p, q, t) : m \in Methods, p \in Paths, q \in Queries, t \in Instants}
NoRequest == [method |-> "", path |-> "", originalUrl |-> "", now |-> ""]

\* constructor arguments: <<passed, value>> for each optional parameter
OptMessage == {<<FALSE, "">>, <<TRUE, "Email is required">>, <<TRUE, "">>}
OptErrorCode == {<<FALSE, "">>, <<TRUE, "VAL_REQUIRED_FIELD">>,
                 <<TRUE, "AUTH_EMAIL_ALREADY_EXISTS">>}
OptDetails == {<<FALSE, Undef>>,
               <<TRUE, ObjectOf([fields |-> <<"email", "password">>])>>,
               <<TRUE, ArrayOf(<<"Email is required">>)>>,
               <<TRUE, Null>>}
OptStatus(className) ==
    IF className = "AppError"
    THEN {<<FALSE, 0>>} \cup {<<TRUE, st>> : st \in HttpStatusCodeType}
    ELSE {<<FALSE, 0>>}

MkArgs(om, os, oc, od) ==
    [given |-> {k \in {"message", "statusCode", "errorCode", "details"} :
                    \/ k = "message" /\ om[1]
                    \/ k = "statusCode" /\ os[1]
                    \/ k = "errorCode" /\ oc[1]
                    \/ k = "details" /\ od[1]},
     message |-> om[2], statusCode |-> os[2], errorCode |-> oc[2], details |-> od[2]]

NoArgs == MkArgs(<<FALSE, "">>, <<FALSE, 0>>, <<FALSE, "">>, <<FALSE, Undef>>)
NoCall == [class |-> "none", args |-> NoArgs]

ArgsOf(className) ==
    {MkArgs(om, os, oc, od) :
        om \in OptMessage, os \in OptStatus(className), oc \in OptErrorCode,
        od \in OptDetails}

\* properties a raiser assigns to an operational fault before throwing it
Assignments ==
    {[prop |-> "code", value |-> "num:11000"],
     [prop |-> "code", value |-> "str:LIMIT_FILE_SIZE"],
     [prop |-> "name", value |-> "TokenExpiredError"],
     [prop |-> "name", value |-> "ECONNREFUSED"],
     [prop |-> "body", value |-> "true"]}

AssignTo(err, as) ==
    CASE as.prop = "code" -> [err EXCEPT !.code = as.value, !.has = @ \cup {"code"}]
      [] as.prop = "name" -> [err EXCEPT !.name = as.value]
      [] as.prop = "body" -> [err EXCEPT !.body = TRUE, !.has = @ \cup {"body"}]

\* the per-field error sets of a data-layer validation failure
FieldErrorSets ==
    LET fe == {[path |-> "email", message |-> "Email is required"],
               [path |-> "age", message |-> "Age must be positive"]}
    IN  UNION {[1..n -> fe] : n \in 0..MaxFieldErrors}

\* err.name: the names errorHandler tests, and NotBeforeError, the third
\* error class of the jsonwebtoken package (a token used before its nbf time)
ForeignNames ==
    {"Error", "JsonWebTokenError", "TokenExpiredError", "NotBeforeError",
     "ECONNREFUSED", "ENOTFOUND"}
ForeignCodes ==
    {"", "num:11000", "str:11000", "str:LIMIT_FILE_SIZE", "str:LIMIT_FILE_COUNT",
     "str:ECONNREFUSED"}
ForeignStatus == {0, HTTPSTATUS.TOO_MANY_REQUESTS, HTTPSTATUS.BAD_GATEWAY}
KeyPatterns == {<<FALSE, <<>>>>, <<TRUE, <<>>>>, <<TRUE, <<"email">>>>}

\* a value thrown by a collaborator: its class, name and own properties
Foreign(proto, name, message, stack, code, sc, body, kp) ==
    [JsValue(proto, name, message) EXCEPT
        !.stack = stack,
        !.code = code,
        !.statusCode = sc,
        !.body = body,
        !.keyPattern = kp[2],
        !.has = {k \in {"code", "statusCode", "body", "keyPattern"} :
                    \/ k = "code" /\ code # ""
                    \/ k = "statusCode" /\ sc # 0
                    \/ k = "body" /\ body
                    \/ k = "keyPattern" /\ kp[1]}]

\* Error objects that are neither AppError nor a mongoose error
PlainErrors ==
    {Foreign(proto, name, message, stack, code, sc, body, kp) :
        proto \in {"Error", "SyntaxError"},
        name \in ForeignNames,
        message \in {"", "connect ECONNREFUSED 127.0.0.1:27017"},
        stack \in {"", "Error\n    at connect"},
        code \in ForeignCodes, sc \in ForeignStatus, body \in BOOLEAN,
        kp \in KeyPatterns}

\* mongoose.Error.ValidationError and mongoose.Error.CastError
MongooseErrors ==
    {[Foreign("ValidationError", name, "User validation failed", "ValidationError\n    at model",
              code, sc, FALSE, <<FALSE, <<>>>>) EXCEPT !.errors = es] :
        name \in {"ValidationError", "TokenExpiredError"},
        code \in {"", "num:11000"}, sc \in ForeignStatus, es \in FieldErrorSets}
    \cup
    {[Foreign("CastError", name, "Cast to ObjectId failed", "CastError\n    at model",
              code, sc, FALSE, <<FALSE, <<>>>>) EXCEPT !.path = "_id", !.value = v] :
        name \in {"CastError", "ENOTFOUND"},
        code \in {"", "num:11000"}, sc \in ForeignStatus, v \in {"abc", ""}}

\* thrown values that are not Error objects: a string, a plain object
NonErrors ==
    {Foreign("NonError", name, message, "", code, sc, FALSE, <<FALSE, <<>>>>) :
        name \in {"", "TokenExpiredError"},
        message \in {"", "boom"},
        code \in {"", "num:11000", "str:LIMIT_FILE_SIZE"},
        sc \in {0, HTTPSTATUS.TOO_MANY_REQUESTS}}

ForeignFaults == PlainErrors \cup MongooseErrors \cup NonErrors

----------------------------------------------------------------------------
(* common/utils/get-env.ts and configs/env.config.ts *)

\* process.env[key]: <<FALSE, "">> when the variable is not set (undefined),
\* <<TRUE, v>> when it is set to the string v; the same for an optional
\* defaultValue argument
Unset == <<FALSE, "">>
Set(v) == <<TRUE, v>>

\* a slip: || in place of ??, so that an empty value falls back to the default
getEnvWithOr(key, val0, defaultValue) ==
    LET val == IF val0[1] /\ val0[2] # "" THEN val0 ELSE defaultValue
    IN  IF ~val[1] \/ val[2] = ""
        THEN [throws |-> TRUE, value |-> "", message |-> "Missing env variable: " \o key]
        ELSE [throws |-> FALSE, value |-> val[2], message |-> ""]

\* getEnv(key, defaultValue), val0 being process.env[key]:
\* val = process.env[key] ?? defaultValue; if (!val) throw; return val
getEnv(key, val0, defaultValue) ==
    LET val == IF val0[1] THEN val0 ELSE defaultValue
    IN  IF ~val[1] \/ val[2] = ""
        THEN [throws |-> TRUE, value |-> "", message |-> "Missing env variable: " \o key]
        ELSE [throws |-> FALSE, value |-> val[2], message |-> ""]

\* the getEnv calls of the Env object literal, in the order they are evaluated
EnvEntries ==
    << [key |-> "PORT", default |-> Set("8000")],
       [key |-> "NODE_ENV", default |-> Set("development")],
       [key |-> "BASE_PATH", default |-> Set("/api/v1")],
       [key |-> "FRONTEND_ORIGIN", default |-> Set("http://localhost:3000")],
       [key |-> "MONGO_URI", default |-> Set("mongodb://localhost:27017/database_name")],
       [key |-> "JWT_SECRET", default |-> Unset],
       [key |-> "JWT_EXPIRES_IN", default |-> Set("15m")],
       [key |-> "JWT_REFRESH_SECRET", default |-> Unset],
       [key |-> "JWT_REFRESH_EXPIRES_IN", default |-> Set("30d")] >>

EnvKeys == {EnvEntries[i].key : i \in 1..Len(EnvEntries)}
NoEnv == [k \in EnvKeys |-> ""]

\* the evaluation of env.config.ts in the environment e: the Error of the
\* first getEnv that throws, or the values of all of them
LoadEnv(e) ==
    LET got == [i \in 1..Len(EnvEntries) |->
                    getEnv(EnvEntries[i].key, e[EnvEntries[i].key], EnvEntries[i].default)]
        bad == {i \in 1..Len(EnvEntries) : got[i].throws}
    IN  IF bad # {}
        THEN LET i == CHOOSE j \in bad : \A k \in bad : j <= k
             IN  [throws |-> TRUE, key |-> EnvEntries[i].key,
                  message |-> got[i].message, values |-> NoEnv]
        ELSE [throws |-> FALSE, key |-> "", message |-> "",
              values |-> [k \in EnvKeys |->
                            got[CHOOSE i \in 1..Len(EnvEntries) : EnvEntries[i].key = k].value]]

\* an environment that sets NODE_ENV and the two secrets and nothing else
Environment(nodeEnv) ==
    [k \in EnvKeys |->
        CASE k = "NODE_ENV" -> Set(nodeEnv)
          [] k \in {"JWT_SECRET", "JWT_REFRESH_SECRET"} -> Set("s3cret")
          [] OTHER -> Unset]

\* the environments a deployment starts the process in
Environs ==
    {[k \in EnvKeys |->
        CASE k = "PORT" -> port
          [] k = "NODE_ENV" -> nodeEnv
          [] k = "JWT_SECRET" -> secret
          [] k = "JWT_REFRESH_SECRET" -> refresh
          [] OTHER -> Unset] :
        port \in {Unset, Set(""), Set("3000")},
        nodeEnv \in {Unset, Set(""), Set("production"), Set("test")},
        secret \in {Unset, Set(""), Set("s3cret")},
        refresh \in {Unset, Set(""), Set("r3fresh")}}

----------------------------------------------------------------------------
(* State *)

Events == {"unhandledRejection", "uncaughtException", "SIGTERM", "SIGINT"}

\* what a controller does with (req, res, next): whether it writes a
\* response, whether it calls next itself ("no", "plain" for next(), "error"
\* for next(err)), whether it starts work it does not await, and how the
\* promise it returns settles ("resolve"; "throw" for a fault thrown before
\* the first await, "reject" for a failure of awaited work)
Scripts ==
    [responds : BOOLEAN, callsNext : {"no", "plain", "error"},
     detaches : BOOLEAN, outcome : {"resolve", "throw", "reject"}]
NoScript == [responds |-> FALSE, callsNext |-> "no", detaches |-> FALSE,
             outcome |-> "none", detached |-> "no"]

\* the controller that runs: its script, and what became of the work it
\* started without awaiting it ("no" when it started none, "pending",
\* "failed" or "completed")
Running(sc) ==
    [responds |-> sc.responds, callsNext |-> sc.callsNext, detaches |-> sc.detaches,
     outcome |-> sc.outcome, detached |-> IF sc.detaches THEN "pending" ELSE "no"]
NoEvent == [name |-> "none", ran |-> 0]

\* index.ts is about to run its body: the modules it imports are evaluated,
\* env.config.ts among them, in an environment that sets the two secrets
Init ==
    /\ NODE_ENV \in Envs
    /\ environ = Environment(NODE_ENV)
    /\ Env = LoadEnv(environ).values
    /\ pc = "idle"
    /\ call = NoCall
    /\ thrown = NoFault
    /\ req = NoRequest
    /\ script = NoScript
    /\ res = <<>>
    /\ nextCalls = <<>>
    /\ chainCalls = <<>>
    /\ proc = "loading"
    /\ exitCode = 0
    /\ listeners = [e \in Events |-> 0]
    /\ timers = <<>>
    /\ lastEvent = NoEvent
    /\ inflight = <<>>

----------------------------------------------------------------------------
(* Raising and translating faults: the constructors of app-error.ts and     *)
(* errorHandler, for every fault of the input sets.                         *)

CascadeRequests ==
    {r \in Requests : r.method = "GET" /\ r.originalUrl \in {"/nope", "/health?full=1"}}

\* application code runs `new <className>(...a)` while serving a request
Construct ==
    /\ pc = "idle"
    /\ \E className \in Variants \cup {"AppError"}, r \in CascadeRequests :
         \E a \in ArgsOf(className) :
            /\ call' = [class |-> className, args |-> a]
            /\ thrown' = New(className, a, r.now)
            /\ req' = r
    /\ pc' = "constructed"
    /\ UNCHANGED <<cfgVars, script, res, nextCalls, chainCalls, procVars, inflight>>

\* application code assigns a property to the fault it is about to throw
Assign ==
    /\ pc = "constructed"
    /\ \E as \in Assignments : thrown' = AssignTo(thrown, as)
    /\ pc' = "assigned"
    /\ UNCHANGED <<cfgVars, call, req, script, res, nextCalls, chainCalls, procVars, inflight>>

\* a collaborator (driver, parser, token or upload library) throws a fault
RaiseForeign ==
    /\ pc = "idle"
    /\ \E f \in ForeignFaults, r \in CascadeRequests :
            /\ thrown' = f
            /\ req' = r
    /\ call' = NoCall
    /\ pc' = "raised"
    /\ UNCHANGED <<cfgVars, script, res, nextCalls, chainCalls, procVars, inflight>>

\* Express hands the fault to errorHandler, which writes the response
Translate ==
    /\ pc \in {"constructed", "assigned", "raised"}
    /\ res' = Append(res, errorHandler(thrown, req, NODE_ENV))
    /\ chainCalls' = Append(chainCalls, "errorHandler")
    /\ pc' = "responded"
    /\ UNCHANGED <<cfgVars, call, thrown, req, script, nextCalls, procVars, inflight>>

\* the request is over
Finish ==
    /\ pc = "responded"
    /\ pc' = "idle"
    /\ call' = NoCall
    /\ thrown' = NoFault
    /\ req' = NoRequest
    /\ res' = <<>>
    /\ chainCalls' = <<>>
    /\ UNCHANGED <<cfgVars, script, nextCalls, procVars, inflight>>

NextCascade ==
    \/ Construct
    \/ Assign
    \/ RaiseForeign
    \/ Translate
    \/ Finish

SpecCascade == Init /\ [][NextCascade]_vars

----------------------------------------------------------------------------
(* common/utils/process-handlers.ts *)

\* the delay of the exit timer of the unhandledRejection listener
GraceDelayMs == 1000

\* process.on(ev, listener): one more listener of ev
On(ls, ev) == [ls EXCEPT ![ev] = @ + 1]

handleUnhandledRejection(ls) == On(ls, "unhandledRejection")
handleUncaughtException(ls) == On(ls, "uncaughtException")
handleSIGTERM(ls) == On(ls, "SIGTERM")
handleSIGINT(ls) == On(ls, "SIGINT")

initializeProcessHandlers(ls) ==
    handleSIGINT(handleSIGTERM(handleUncaughtException(handleUnhandledRejection(ls))))

RegistrationFunctions ==
    {"initializeProcessHandlers", "handleUnhandledRejection",
     "handleUncaughtException", "handleSIGTERM", "handleSIGINT"}

Registration(fn, ls) ==
    CASE fn = "initializeProcessHandlers" -> initializeProcessHandlers(ls)
      [] fn = "handleUnhandledRejection" -> handleUnhandledRejection(ls)
      [] fn = "handleUncaughtException" -> handleUncaughtException(ls)
      [] fn = "handleSIGTERM" -> handleSIGTERM(ls)
      [] fn = "handleSIGINT" -> handleSIGINT(ls)

\* setTimeout(callback, delay): a timer that has waited 0 ms of its delay
Timer(delay) == [delay |-> delay, waited |-> 0]

\* a slip: the uncaughtException listener defers its exit like the
\* unhandledRejection listener does
EmitUncaughtDeferred(ev, ls, env, tm) ==
    IF ev \in {"unhandledRejection", "uncaughtException"}
    THEN [proc |-> "running", exitCode |-> 0, ran |-> ls[ev],
          timers |-> tm \o [i \in 1..(IF env = "production" THEN ls[ev] ELSE 0)
                                |-> Timer(GraceDelayMs)]]
    ELSE [proc |-> "exited", ran |-> 1, timers |-> <<>>, exitCode |-> 0]

\* a slip: the exit timer is set without looking at NODE_ENV, for half the delay
EmitExitTimerEverywhere(ev, ls, env, tm) ==
    IF ev = "unhandledRejection"
    THEN [proc |-> "running", exitCode |-> 0, ran |-> ls[ev],
          timers |-> tm \o [i \in 1..ls[ev] |-> Timer(GraceDelayMs \div 2)]]
    ELSE [proc |-> "exited", ran |-> 1, timers |-> <<>>,
          exitCode |-> IF ev = "uncaughtException" THEN 1 ELSE 0]

\* The process emits ev: its listeners run in the order they were added.
\* The unhandledRejection listener returns (after setting its timer in
\* production), so all of them run; the others call process.exit, which ends
\* the process before a second listener runs.
Emit(ev, ls, env, tm) ==
    IF ev = "unhandledRejection"
    THEN [proc |-> "running", exitCode |-> 0, ran |-> ls[ev],
          timers |-> tm \o [i \in 1..(IF env = "production" THEN ls[ev] ELSE 0)
                                |-> Timer(GraceDelayMs)]]
    ELSE [proc |-> "exited", ran |-> 1, timers |-> <<>>,
          exitCode |-> IF ev = "uncaughtException" THEN 1 ELSE 0]

----------------------------------------------------------------------------
(* middlewares/asyncHandler.middleware.ts *)

\* a slip: the promise is caught, a fault thrown before it exists is not
asyncHandlerWithoutTry(sc, e) ==
    IF sc.outcome = "reject" THEN <<e>> ELSE <<>>

\* asyncHandler(controller)(req, res, next): the values its catch passes to
\* next once the promise of the controller settled
asyncHandler(sc, e) ==
    IF sc.outcome \in {"throw", "reject"} THEN <<e>> ELSE <<>>

----------------------------------------------------------------------------
(* index.ts: the middleware chain, and Express running it *)

\* app.get("/") and app.get("/health"); Express answers HEAD with a GET route
RouteMatches(r) == r.method \in {"GET", "HEAD"} /\ r.path \in {"/", "/health"}

\* the two controllers of index.ts: res.status(HTTPSTATUS.OK).json(...)
ControllerWrite(r) ==
    [by |-> "controller", status |-> HTTPSTATUS.OK,
     body |-> IF r.path = "/health"
              THEN [message |-> "Server is healthy", status |-> "OK",
                    timestamp |-> r.now]
              ELSE [message |-> "Welcome to the Express.js Authentication API",
                    status |-> "OK"]]
AppController ==
    [responds |-> TRUE, callsNext |-> "no", detaches |-> FALSE, outcome |-> "resolve"]

\* next(v) called from a route: a truthy v goes to the error-handling
\* middleware, anything else to the next middleware, which is notFoundHandler
ExpressNext(v, r, env) ==
    IF v.truthy THEN errorHandler(v, r, env) ELSE notFoundHandler(r)

\* the SyntaxError express.json() passes to next for a malformed body
BodyParseError ==
    Foreign("SyntaxError", "SyntaxError", "Unexpected token i in JSON at position 0",
            "SyntaxError\n    at JSON.parse", "", HTTPSTATUS.BAD_REQUEST, TRUE,
            <<FALSE, <<>>>>)

\* a slip: the catch of connectDatabase throws the error it caught
ConnectDatabaseErrorOfDriver ==
    Foreign("Error", "MongooseServerSelectionError",
            "connect ECONNREFUSED 127.0.0.1:27017",
            "MongooseServerSelectionError\n    at connect", "", 0, FALSE, <<FALSE, <<>>>>)

\* connectDatabase: what it throws when mongoose.connect fails
ConnectDatabaseError ==
    Foreign("Error", "Error", "Error connecting to MongoDB",
            "Error\n    at connectDatabase", "", 0, FALSE, <<FALSE, <<>>>>)

\* index.ts is evaluated: the process handlers are registered, the chain is
\* built and the server listens; the listen callback awaits connectDatabase,
\* and nothing awaits the callback
Start ==
    /\ proc = "loading"
    /\ listeners' = initializeProcessHandlers(listeners)
    /\ proc' = "running"
    /\ inflight' = Append(inflight, [op |-> "connectDatabase",
                                     fault |-> ConnectDatabaseError,
                                     owner |-> "startup"])
    /\ UNCHANGED <<cfgVars, reqVars, exitCode, timers, lastEvent>>

\* some module calls a registration function again
CallRegistration ==
    /\ proc = "running"
    /\ \E fn \in RegistrationFunctions :
          /\ \A e \in Events : Registration(fn, listeners)[e] <= 1 + MaxRegistrations
          /\ listeners' = Registration(fn, listeners)
    /\ UNCHANGED <<cfgVars, reqVars, proc, exitCode, timers, lastEvent, inflight>>

\* the effect of the process emitting ev
Emitted(ev) ==
    LET e == Emit(ev, listeners, NODE_ENV, timers) IN
    /\ proc' = e.proc
    /\ exitCode' = e.exitCode
    /\ timers' = e.timers
    /\ lastEvent' = [name |-> ev, ran |-> e.ran]

\* SIGTERM or SIGINT is delivered to the process
Signal ==
    /\ proc = "running"
    /\ \E ev \in {"SIGTERM", "SIGINT"} : Emitted(ev)
    /\ UNCHANGED <<cfgVars, reqVars, listeners, inflight>>

\* a fault is thrown outside every request and caught by nothing
UncaughtException ==
    /\ proc = "running"
    /\ Emitted("uncaughtException")
    /\ UNCHANGED <<cfgVars, reqVars, listeners, inflight>>

\* the controller of the current request after work it started ended
Detached(op, how) ==
    IF op.owner = "request" THEN [script EXCEPT !.detached = how] ELSE script

\* work that nothing awaits fails: an unhandled rejection
DetachedFails ==
    /\ proc = "running"
    /\ inflight # <<>>
    /\ Len(timers) + listeners["unhandledRejection"] <= MaxTimers
    /\ inflight' = Tail(inflight)
    /\ script' = Detached(Head(inflight), "failed")
    /\ Emitted("unhandledRejection")
    /\ UNCHANGED <<cfgVars, pc, call, thrown, req, res, nextCalls, chainCalls, listeners>>

\* work that nothing awaits completes
DetachedCompletes ==
    /\ proc = "running"
    /\ inflight # <<>>
    /\ inflight' = Tail(inflight)
    /\ script' = Detached(Head(inflight), "completed")
    /\ UNCHANGED <<cfgVars, pc, call, thrown, req, res, nextCalls, chainCalls, procVars>>

\* time passes, not beyond the moment a timer is due
TimePasses ==
    /\ proc = "running"
    /\ timers # <<>>
    /\ \A i \in 1..Len(timers) : timers[i].waited < timers[i].delay
    /\ \E d \in {GraceDelayMs \div 2, GraceDelayMs} :
          /\ \A i \in 1..Len(timers) : timers[i].waited + d <= timers[i].delay
          /\ timers' = [i \in 1..Len(timers) |->
                            [timers[i] EXCEPT !.waited = @ + d]]
    /\ UNCHANGED <<cfgVars, reqVars, proc, exitCode, listeners, lastEvent, inflight>>

\* a slip: the exit timer ends the process with status 0
TimerFiresExitZero ==
    /\ proc = "running"
    /\ \E i \in 1..Len(timers) : timers[i].waited >= timers[i].delay
    /\ proc' = "exited"
    /\ exitCode' = 0
    /\ timers' = <<>>
    /\ UNCHANGED <<cfgVars, reqVars, listeners, lastEvent, inflight>>

\* a due exit timer runs: process.exit(1)
TimerFires ==
    /\ proc = "running"
    /\ \E i \in 1..Len(timers) : timers[i].waited >= timers[i].delay
    /\ proc' = "exited"
    /\ exitCode' = 1
    /\ timers' = <<>>
    /\ UNCHANGED <<cfgVars, reqVars, listeners, lastEvent, inflight>>

\* a request arrives and Express runs the chain of index.ts for it
Receive ==
    /\ proc = "running"
    /\ pc = "idle"
    /\ \E r \in Requests, malformed \in BOOLEAN :
          /\ malformed => r.method = "POST"
          /\ req' = r
          /\ IF malformed
             THEN /\ thrown' = BodyParseError
                  /\ script' = NoScript
                  /\ res' = <<errorHandler(BodyParseError, r, NODE_ENV)>>
                  /\ chainCalls' = <<"express.json", "errorHandler">>
                  /\ pc' = "settled"
             ELSE IF RouteMatches(r)
             THEN /\ thrown' = NoFault
                  /\ script' = Running(AppController)
                  /\ res' = <<ControllerWrite(r)>>
                  /\ chainCalls' = <<"express.json", "route">>
                  /\ pc' = "awaiting"
             ELSE /\ thrown' = NoFault
                  /\ script' = NoScript
                  /\ res' = <<notFoundHandler(r)>>
                  /\ chainCalls' = <<"express.json", "notFoundHandler">>
                  /\ pc' = "settled"
    /\ UNCHANGED <<cfgVars, call, nextCalls, procVars, inflight>>

\* the faults the controllers of the wrapper's callers fail with
BoundaryFaults ==
    {New("ValidationException",
         MkArgs(<<TRUE, "Email is required">>, <<FALSE, 0>>, <<FALSE, "">>, <<FALSE, Undef>>),
         CHOOSE t \in Instants : TRUE),
     Foreign("Error", "Error", "boom", "Error\n    at controller", "", 0, FALSE,
             <<FALSE, <<>>>>),
     Foreign("Error", "TokenExpiredError", "jwt expired", "TokenExpiredError\n    at verify",
             "", 0, FALSE, <<FALSE, <<>>>>),
     JsValue("NonError", "", ""),
     [JsValue("NonError", "", "") EXCEPT !.truthy = FALSE]}

\* the writes a controller makes, and the ones Express makes for the
\* controller's own call of next, before the promise of the controller settles
WritesBeforeSettling(sc, e, r, env) ==
    (IF sc.responds THEN <<ControllerWrite(r)>> ELSE <<>>)
    \o (CASE sc.callsNext = "plain" -> <<notFoundHandler(r)>>
          [] sc.callsNext = "error" -> <<ExpressNext(e, r, env)>>
          [] OTHER -> <<>>)

\* the writes Express makes for the values the wrapper passed to next
WritesForNext(vs, r, env) == [i \in 1..Len(vs) |-> ExpressNext(vs[i], r, env)]

\* Express calls a handler made by asyncHandler(controller), the controller
\* being any controller of a feature module; a fault thrown before the first
\* await reaches the wrapper's catch in the same turn
Invoke ==
    /\ proc = "running"
    /\ pc = "idle"
    /\ \E r \in CascadeRequests, sc \in Scripts, e \in BoundaryFaults :
          /\ sc.detaches => Len(inflight) < MaxInflight
          /\ req' = r
          /\ script' = Running(sc)
          /\ thrown' = e
          /\ inflight' = IF sc.detaches
                         THEN Append(inflight, [op |-> "controller", fault |-> e,
                                                owner |-> "request"])
                         ELSE inflight
          /\ IF sc.outcome = "throw"
             THEN /\ nextCalls' = asyncHandler(sc, e)
                  /\ res' = WritesBeforeSettling(sc, e, r, NODE_ENV)
                            \o WritesForNext(asyncHandler(sc, e), r, NODE_ENV)
                  /\ pc' = "settled"
             ELSE /\ nextCalls' = <<>>
                  /\ res' = WritesBeforeSettling(sc, e, r, NODE_ENV)
                  /\ pc' = "awaiting"
    /\ chainCalls' = <<"express.json", "route">>
    /\ UNCHANGED <<cfgVars, call, procVars>>

\* the promise of the controller settles and the wrapper's await returns
Settle ==
    /\ proc = "running"
    /\ pc = "awaiting"
    /\ nextCalls' = asyncHandler(script, thrown)
    /\ res' = res \o WritesForNext(asyncHandler(script, thrown), req, NODE_ENV)
    /\ pc' = "settled"
    /\ UNCHANGED <<cfgVars, call, thrown, req, script, chainCalls, procVars, inflight>>

\* the request is over; work it started and did not await may outlive it
Done ==
    /\ proc = "running"
    /\ pc = "settled"
    /\ pc' = "idle"
    /\ call' = NoCall
    /\ thrown' = NoFault
    /\ req' = NoRequest
    /\ script' = NoScript
    /\ res' = <<>>
    /\ nextCalls' = <<>>
    /\ chainCalls' = <<>>
    /\ inflight' = [i \in 1..Len(inflight) |->
                        IF inflight[i].owner = "request"
                        THEN [inflight[i] EXCEPT !.owner = "earlier"]
                        ELSE inflight[i]]
    /\ UNCHANGED <<cfgVars, procVars>>

\* the application of index.ts
Next ==
    \/ Start
    \/ CallRegistration
    \/ Receive
    \/ Settle
    \/ Done
    \/ Signal
    \/ UncaughtException
    \/ DetachedFails
    \/ DetachedCompletes
    \/ TimePasses
    \/ TimerFires

Spec == Init /\ [][Next]_vars

\* the application of index.ts on the event loop of Node, which lets time
\* pass and runs due timers
SpecApp == Spec /\ WF_vars(TimePasses) /\ WF_vars(TimerFires)

\* node starts index.ts in some environment: nothing is evaluated yet
InitConfig ==
    /\ environ \in Environs
    /\ Env = NoEnv
    /\ NODE_ENV = ""
    /\ pc = "idle"
    /\ call = NoCall
    /\ thrown = NoFault
    /\ req = NoRequest
    /\ script = NoScript
    /\ res = <<>>
    /\ nextCalls = <<>>
    /\ chainCalls = <<>>
    /\ proc = "importing"
    /\ exitCode = 0
    /\ listeners = [e \in Events |-> 0]
    /\ timers = <<>>
    /\ lastEvent = NoEvent
    /\ inflight = <<>>

\* the imports of index.ts are evaluated before its body: env.config.ts
\* builds Env; an Error thrown by getEnv there is caught by nothing and no
\* listener is registered yet, so node ends the process with status 1
LoadConfig ==
    /\ proc = "importing"
    /\ LET l == LoadEnv(environ) IN
       IF l.throws
       THEN /\ proc' = "exited"
            /\ exitCode' = 1
            /\ thrown' = Foreign("Error", "Error", l.message, "Error\n    at getEnv",
                                 "", 0, FALSE, <<FALSE, <<>>>>)
            /\ UNCHANGED <<Env, NODE_ENV>>
       ELSE /\ proc' = "loading"
            /\ Env' = l.values
            /\ NODE_ENV' = l.values.NODE_ENV
            /\ UNCHANGED <<exitCode, thrown>>
    /\ UNCHANGED <<environ, pc, call, req, script, res, nextCalls, chainCalls,
                   listeners, timers, lastEvent, inflight>>

\* the process from its start: configuration, then the application
NextConfig ==
    \/ LoadConfig
    \/ Next

SpecConfig == InitConfig /\ [][NextConfig]_vars

\* handlers made by asyncHandler around any controller, in the chain of index.ts
NextBoundary ==
    \/ Start
    \/ Invoke
    \/ Settle
    \/ Done
    \/ DetachedFails
    \/ DetachedCompletes
    \/ TimePasses
    \/ TimerFires

SpecBoundary == Init /\ [][NextBoundary]_vars

\* the process with feature controllers behind asyncHandler: signals and
\* uncaught exceptions arrive while requests and un-awaited work are under
\* way; the event loop lets time pass and runs due timers
NextProcess ==
    \/ NextBoundary
    \/ Signal
    \/ UncaughtException

SpecProcess ==
    Init /\ [][NextProcess]_vars /\ WF_vars(TimePasses) /\ WF_vars(TimerFires)

----------------------------------------------------------------------------
(* Properties *)

\* the response errorHandler wrote last
LastWrite == res[Len(res)]
Body == LastWrite.body

\* the details of a response body, undefined when the key is absent
DetailsOf(b) == IF "details" \in DOMAIN b THEN b.details ELSE Undef

\* the body carries a stack field in its details
HasStack(b) ==
    /\ "details" \in DOMAIN b
    /\ b.details.kind = "object"
    /\ "stack" \in DOMAIN b.details.fields

\* the body's details are d, or d's own properties with a stack field added
CarriesDetails(b, d) ==
    \/ DetailsOf(b) = d
    \/ /\ HasStack(b)
       /\ DOMAIN b.details.fields = DOMAIN Spread(d) \cup {"stack"}
       /\ \A k \in DOMAIN Spread(d) \ {"stack"} : b.details.fields[k] = Spread(d)[k]

\* the fault was made by one of the 18 subclasses, no error code passed
ConstructedWithoutCode ==
    /\ pc = "constructed"
    /\ call.class \in Variants
    /\ "errorCode" \notin call.args.given

\* the message and the details are the caller's, and the fault is operational
CallerValuesKept ==
    /\ "message" \in call.args.given => thrown.message = call.args.message
    /\ thrown.details = Arg(call.args, "details", Undef)
    /\ thrown.isOperational

\* The default (status, code) of each variant as the specification's table
\* gives it.  The table's code names are read through the codes the cascade
\* and notFoundHandler use for the same names: client-not-found is USR_404,
\* validation-failed VAL_400, rate-limit-exceeded RATE_429,
\* external-unavailable EXT_SERVICE_UNAVAILABLE, server-internal-error SRV_500;
\* the other names through the descriptions of error-code.enum.ts.
SpecifiedDefaults ==
    [BadRequestException |-> <<400, "USR_400">>,
     UnauthorizedException |-> <<401, "AUTH_401">>,
     ForbiddenException |-> <<403, "AUTH_403">>,
     NotFoundException |-> <<404, "USR_404">>,
     MethodNotAllowedException |-> <<405, "USR_405">>,
     ConflictException |-> <<409, "USR_409">>,
     UnprocessableEntityException |-> <<422, "USR_422">>,
     TooManyRequestsException |-> <<429, "RATE_429">>,
     ValidationException |-> <<400, "VAL_400">>,
     AuthenticationException |-> <<401, "AUTH_401">>,
     AuthorizationException |-> <<403, "AUTH_403">>,
     DatabaseException |-> <<500, "DB_500">>,
     DatabaseConnectionException |-> <<503, "DB_CONNECTION_ERROR">>,
     ExternalServiceException |-> <<502, "EXT_API_ERROR">>,
     ServiceUnavailableException |-> <<503, "EXT_SERVICE_UNAVAILABLE">>,
     GatewayTimeoutException |-> <<504, "EXT_504">>,
     InternalServerException |-> <<500, "SRV_500">>,
     NotImplementedException |-> <<501, "SRV_501">>]

\* the same table, the ServiceUnavailable row with the code of its own
AmendedDefaults ==
    [SpecifiedDefaults EXCEPT !.ServiceUnavailableException = <<503, "EXT_503">>]

OperationalTranslated == pc = "responded" /\ thrown.proto = "AppError"

\* C2, as stated: the response to an operational fault has exactly the
\* fault's own statusCode, errorCode, message and details, whatever other
\* properties the fault carries.
C2_VerbatimAsSpecified ==
    OperationalTranslated =>
        /\ LastWrite.status = thrown.statusCode
        /\ Body.httpStatus = thrown.statusCode
        /\ Body.errorCode = thrown.errorCode
        /\ Body.message = thrown.message
        /\ DetailsOf(Body) = thrown.details

\* C2, amended: status, code and message are the fault's own in every mode;
\* the details are the fault's own outside development, and in development
\* they are an object of the own properties of the fault's details plus the
\* stack of the fault.  Validation("Email is required") yields VAL_400, 400.
C2_Verbatim ==
    OperationalTranslated =>
        /\ LastWrite.status = thrown.statusCode
        /\ Body.httpStatus = thrown.statusCode
        /\ Body.errorCode = thrown.errorCode
        /\ Body.message = thrown.message
        /\ NODE_ENV # "development" => DetailsOf(Body) = thrown.details
        /\ NODE_ENV = "development" =>
              /\ HasStack(Body)
              /\ Body.details.fields.stack = thrown.stack
              /\ CarriesDetails(Body, thrown.details)
        /\ (call.class = "ValidationException" /\ pc = "responded"
            /\ call.args.given = {"message"}
            /\ call.args.message = "Email is required") =>
              /\ Body.errorCode = "VAL_400"
              /\ Body.httpStatus = 400
              /\ Body.message = "Email is required"

C2_Witness ==
    /\ OperationalTranslated
    /\ In("code", thrown) /\ thrown.code = "num:11000"
    /\ thrown.statusCode = 429
    /\ NODE_ENV = "production"
    /\ thrown.details # Undef
    /\ Body.errorCode = "RATE_429"

\* the first branch whose test the fault passes, 10 when it passes none
FirstRule(err) ==
    IF \E k \in 1..9 : Test(k, err)
    THEN CHOOSE k \in 1..9 : Test(k, err) /\ \A j \in 1..(k - 1) : ~Test(j, err)
    ELSE 10

\* C3: the classification is first-match-wins in the fixed order: status,
\* code, message and details of the response are those of the earliest rule
\* whose test the fault passes (rule 10 when it passes none), also when the
\* fault passes the tests of several rules.
C3_FirstMatchWins ==
    pc = "responded" =>
        LET o == Outcome(FirstRule(thrown), thrown) IN
        /\ LastWrite.status = o.statusCode
        /\ Body.httpStatus = o.statusCode
        /\ Body.errorCode = o.errorCode
        /\ Body.message = o.message
        /\ CarriesDetails(Body, o.details)
        /\ NODE_ENV # "development" => DetailsOf(Body) = o.details

C3_Witness ==
    /\ pc = "responded"
    /\ Cardinality({k \in 1..9 : Test(k, thrown)}) >= 3
    /\ Test(6, thrown) /\ Test(7, thrown) /\ Test(8, thrown)
    /\ Body.errorCode = "AUTH_INVALID_TOKEN"

\* C4, as stated: the HTTP status of every response errorHandler writes is
\* in [400, 599].
C4_StatusIsAnError ==
    pc = "responded" =>
        /\ LastWrite.status \in 400..599
        /\ Body.httpStatus \in 400..599

\* C5: every body has errorName, errorCode, httpStatus, message, timestamp
\* and path, and has no details when the cascade produced none and the
\* process does not run in development.
C5_BodyShape ==
    pc = "responded" =>
        /\ {"errorName", "errorCode", "httpStatus", "message", "timestamp", "path"}
              \subseteq DOMAIN Body
        /\ Body.errorName # "" /\ Body.path = req.originalUrl
        /\ (Classify(thrown).details = Undef /\ NODE_ENV # "development")
              => "details" \notin DOMAIN Body

C5_Witness ==
    /\ pc = "responded"
    /\ NODE_ENV = "test"
    /\ thrown.proto = "NonError"
    /\ DOMAIN Body = {"errorName", "errorCode", "httpStatus", "message", "timestamp", "path"}

\* C6, as stated: in development every response carries a stack field, in
\* any other configuration none does.
C6_StackAsSpecified ==
    pc = "responded" => (HasStack(Body) <=> NODE_ENV = "development")

\* C6, amended: in development the response carries the stack of every fault
\* that is an Error object with a stack (every operational fault is one); a
\* thrown value that is no Error object, or an Error without a stack, gets
\* none; in any other configuration no response carries a stack field.
C6_Stack ==
    pc = "responded" =>
        /\ HasStack(Body) <=>
              (NODE_ENV = "development" /\ IsError(thrown) /\ thrown.stack # "")
        /\ HasStack(Body) => Body.details.fields.stack = thrown.stack
        /\ (NODE_ENV = "development" /\ thrown.proto = "AppError") => HasStack(Body)

C6_Witness ==
    /\ pc = "responded"
    /\ NODE_ENV = "development"
    /\ thrown.proto = "ValidationError"
    /\ Len(thrown.errors) = 2
    /\ HasStack(Body)
    /\ "1" \in DOMAIN Body.details.fields

\* the promise of the controller failed: a fault thrown, or awaited work failed
AwaitedFailure == script.outcome \in {"throw", "reject"}

\* a wrapped handler ran and the promise of its controller settled
WrapperSettled == pc = "settled" /\ script # NoScript

\* C7, as stated: when the handler throws or its asynchronous work fails with
\* e, the wrapper calls next exactly once, with e; when the handler completes
\* without a fault the wrapper never calls next.
C7_ForwardedOnceAsSpecified ==
    WrapperSettled =>
        nextCalls = (IF AwaitedFailure \/ script.detached = "failed"
                     THEN <<thrown>> ELSE <<>>)

\* C7, amended: when the handler throws, or work it awaits fails, with e, the
\* wrapper calls next exactly once, with e; it does not call next before the
\* promise settles nor when the promise resolves.  A failure of work the
\* handler started and did not await is not forwarded: it is an
\* unhandledRejection of the process.
C7_ForwardedOnce ==
    /\ WrapperSettled =>
          nextCalls = (IF AwaitedFailure THEN <<thrown>> ELSE <<>>)
    /\ pc = "awaiting" => nextCalls = <<>>
    /\ (pc \in {"awaiting", "settled"} /\ script.detached = "failed")
          => lastEvent.name = "unhandledRejection"

C7_Witness ==
    /\ WrapperSettled
    /\ script.outcome = "reject"
    /\ script.detached = "failed"
    /\ thrown.proto = "AppError"
    /\ nextCalls = <<thrown>>
    /\ res[Len(res)].by = "errorHandler"

\* C8, as stated: when the handler already produced a response, or called
\* next itself, and then fails, the wrapper does not forward the fault, and
\* no further write to the response is attempted.
C8_NoDoubleForward ==
    (WrapperSettled /\ AwaitedFailure
        /\ (script.responds \/ script.callsNext # "no")) =>
        /\ nextCalls = <<>>
        /\ res = WritesBeforeSettling(script, thrown, req, NODE_ENV)

\* the middlewares that ran for the request
Ran(m) == \E i \in 1..Len(chainCalls) : chainCalls[i] = m

\* C9: whatever the method and URL, the response of notFoundHandler has
\* status 404, errorCode USR_404, errorName NotFoundError, the request URL
\* as path and the message naming method and URL; in the chain of index.ts
\* it runs only for requests that no route answered.
C9_NotFound ==
    Ran("notFoundHandler") =>
        /\ Len(res) = 1
        /\ res[1].by = "notFoundHandler"
        /\ res[1].status = 404
        /\ res[1].body.httpStatus = 404
        /\ res[1].body.errorCode = "USR_404"
        /\ res[1].body.errorName = "NotFoundError"
        /\ res[1].body.path = req.originalUrl
        /\ res[1].body.message =
              "The requested endpoint " \o req.method \o " " \o req.originalUrl
              \o " was not found"
        /\ (req.method = "GET" /\ req.originalUrl = "/nope") =>
              res[1].body.message = "The requested endpoint GET /nope was not found"
        /\ ~RouteMatches(req)
        /\ ~Ran("route")

C9_Witness ==
    /\ Ran("notFoundHandler")
    /\ req.method = "POST"
    /\ req.originalUrl = "/health?full=1"
    /\ res[1].body.message = "The requested endpoint POST /health?full=1 was not found"

\* C10, as stated: however often the registration functions were called, one
\* occurrence of a process event runs its handler exactly once.
C10_HandlerRunsOnce ==
    lastEvent.name # "none" => lastEvent.ran = 1

\* the process ended in this step
Exits == proc = "running" /\ proc' = "exited"

\* C11: once the handlers are registered, an uncaught exception ends the
\* process in the step it is emitted, with exit status 1, in every
\* environment, with no exit timer left to wait for; a process that ended
\* processes nothing further.
C11_UncaughtExits ==
    [][/\ (proc = "running" /\ lastEvent' # lastEvent
            /\ lastEvent'.name = "uncaughtException")
          => (proc' = "exited" /\ exitCode' = 1 /\ timers' = <<>>)
       /\ proc = "exited" => UNCHANGED vars]_vars

C11_Witness ==
    /\ lastEvent.name = "uncaughtException"
    /\ proc = "exited" /\ exitCode = 1
    /\ NODE_ENV = "development"
    /\ pc = "awaiting"

\* the process ended in this step because an exit timer ran
ExitsByTimer == Exits /\ lastEvent' = lastEvent /\ timers # <<>>

\* C12: in production an unhandled rejection leaves an exit timer pending,
\* one per listener, and the timer ends the process (status 1) only when the
\* 1000 ms have been waited, not before; in any other environment the
\* rejection sets no timer, no timer ever ends the process, and the process
\* is still running after the rejection.
C12_RejectionGrace ==
    [][/\ (proc = "running" /\ lastEvent' # lastEvent
            /\ lastEvent'.name = "unhandledRejection")
          => /\ proc' = "running"
             /\ IF NODE_ENV = "production"
                THEN /\ Len(timers') = Len(timers) + listeners["unhandledRejection"]
                     /\ timers'[Len(timers')] = [delay |-> 1000, waited |-> 0]
                ELSE timers' = <<>>
       /\ ExitsByTimer
          => /\ NODE_ENV = "production"
             /\ exitCode' = 1
             /\ \E i \in 1..Len(timers) : timers[i].waited >= 1000
       /\ NODE_ENV # "production" => timers = <<>>]_vars

\* in production the timer of a rejection ended the process while a request
\* answered by notFoundHandler was settled
C12_Witness ==
    /\ NODE_ENV = "production"
    /\ lastEvent.name = "unhandledRejection"
    /\ proc = "exited" /\ exitCode = 1
    /\ pc = "settled" /\ Ran("notFoundHandler")

\* C13, as stated: when SIGTERM ended the process (status 0), no request was
\* in flight and no started work was outstanding; SIGINT ends it with
\* status 0.
C13_GracefulExit ==
    /\ (proc = "exited" /\ lastEvent.name = "SIGTERM")
          => (exitCode = 0 /\ pc # "awaiting" /\ inflight = <<>>)
    /\ (proc = "exited" /\ lastEvent.name = "SIGINT") => exitCode = 0

\* in production a rejection happened and its exit timer is pending
GracePending == NODE_ENV = "production" /\ proc = "running" /\ timers # <<>>

\* C20, as stated: in production, once an unhandled rejection has occurred,
\* the process ends with exit status 1, whatever events arrive during the
\* grace delay.
C20_ExitOneAsStated ==
    /\ [][(GracePending /\ Exits) => exitCode' = 1]_vars
    /\ GracePending ~> proc = "exited"

\* C20, amended: in production, once an unhandled rejection has occurred,
\* the process ends: with exit status 1 when its timer runs or an uncaught
\* exception arrives first, with exit status 0 when SIGTERM or SIGINT arrives
\* during the grace delay; further unhandled rejections neither cancel nor
\* postpone the exit.
C20_RejectionEndsProcess ==
    /\ [][(GracePending /\ Exits) =>
            \/ exitCode' = 1 /\ lastEvent'.name \in {"unhandledRejection", "uncaughtException"}
            \/ exitCode' = 0 /\ lastEvent'.name \in {"SIGTERM", "SIGINT"}]_vars
    /\ [][(GracePending /\ proc' = "running") =>
            /\ Len(timers') >= Len(timers)
            /\ \A i \in 1..Len(timers) :
                  timers'[i].delay = timers[i].delay /\ timers'[i].waited >= timers[i].waited]_vars
    /\ GracePending ~> proc = "exited"

\* a second rejection arrived half way through the grace delay of the first
C20_Witness ==
    /\ GracePending
    /\ Len(timers) = 2
    /\ timers[1].waited = 500
    /\ timers[2].waited = 0
    /\ lastEvent.name = "unhandledRejection"

\* errorHandler answered a fault that none of the rules 1..(k - 1) matches
Unmatched(k) == pc = "responded" /\ \A j \in 1..(k - 1) : ~Test(j, thrown)

\* the fault carries the duplicate-key code of the storage driver
CarriesDuplicateKey == "code" \in thrown.has /\ thrown.code = "num:11000"

\* the details the duplicate-key rule is specified to produce
DuplicateFields ==
    IF "keyPattern" \in thrown.has
    THEN ObjectOf([duplicateFields |-> thrown.keyPattern])
    ELSE Undef

TokenFaultNames == {"TokenExpiredError", "NotBeforeError", "JsonWebTokenError"}

\* C15, as stated: every signed-token fault that no earlier rule matches is
\* answered 401 AUTH_INVALID_TOKEN, with the session-expired message when the
\* token expired and the invalid-token message otherwise.
C15_TokenFaults ==
    (Unmatched(6) /\ IsError(thrown) /\ thrown.name \in TokenFaultNames) =>
        /\ LastWrite.status = 401
        /\ Body.httpStatus = 401
        /\ Body.errorCode = "AUTH_INVALID_TOKEN"
        /\ Body.message = IF thrown.name = "TokenExpiredError"
                          THEN "Your session has expired. Please log in again"
                          ELSE "Invalid authentication token"

\* the codes and names by which the network layer marks its faults
NetworkMarks == {"ECONNREFUSED", "ETIMEDOUT", "ENOTFOUND"}

\* a network fault: marked by its name, or as Node marks its system errors,
\* by its code
NetworkFault ==
    /\ IsError(thrown)
    /\ \/ thrown.name \in NetworkMarks
       \/ "code" \in thrown.has /\ thrown.code \in {"str:" \o m : m \in NetworkMarks}

\* C16, as stated: every network fault that no earlier rule matches is
\* answered 503 EXT_SERVICE_UNAVAILABLE, never 500.
C16_NetworkFaults ==
    (Unmatched(9) /\ NetworkFault) =>
        /\ LastWrite.status = 503
        /\ Body.httpStatus = 503
        /\ Body.errorCode = "EXT_SERVICE_UNAVAILABLE"

\* C17, as stated: in production the response to a fault no rule matches
\* has the generic message, never the message of the fault.
C17_NoLeakInProduction ==
    (Unmatched(10) /\ NODE_ENV = "production") =>
        Body.message = "An unexpected error occurred"

\* status, code and name of the response to a fault no rule matches
FallbackShape ==
    /\ LastWrite.status = 500
    /\ Body.httpStatus = 500
    /\ Body.errorCode = "SRV_500"
    /\ Body.errorName = IF thrown.name # "" THEN thrown.name ELSE "Error"

\* C18, as stated: a fault no rule matches is answered 500 SRV_500 with its
\* own message when that is not empty and the generic message otherwise, and
\* with its own name, or Error when it has none.
C18_FallbackAsStated ==
    Unmatched(10) =>
        /\ FallbackShape
        /\ Body.message = IF thrown.message # "" THEN thrown.message
                          ELSE "An unexpected error occurred"

\* C18, amended: the same, except that the message of the fault is used
\* only when the fault is an Error object; a thrown value that is no Error
\* object gets the generic message whatever message property it has.
C18_Fallback ==
    Unmatched(10) =>
        /\ FallbackShape
        /\ Body.message = IF IsError(thrown) /\ thrown.message # "" THEN thrown.message
                          ELSE "An unexpected error occurred"

C18_Witness ==
    /\ Unmatched(10)
    /\ ~IsError(thrown)
    /\ thrown.message = "boom"
    /\ thrown.name = "TokenExpiredError"
    /\ "code" \in thrown.has
    /\ Body.errorName = "TokenExpiredError"
    /\ Body.message = "An unexpected error occurred"

\* the ordered list of {field, message}, one entry per field error
FieldList ==
    ArrayOf([i \in 1..Len(thrown.errors) |->
                [field |-> thrown.errors[i].path, message |-> thrown.errors[i].message]])

\* errorHandler answered a data-layer validation failure
ValidationFailureTranslated == pc = "responded" /\ thrown.proto = "ValidationError"

\* C19, as stated: a data-layer validation failure is answered 400
\* DB_VALIDATION_ERROR and the details are the ordered list of {field,
\* message}, in every runtime mode.
C19_FieldListAsStated ==
    ValidationFailureTranslated =>
        /\ LastWrite.status = 400
        /\ Body.httpStatus = 400
        /\ Body.errorCode = "DB_VALIDATION_ERROR"
        /\ DetailsOf(Body) = FieldList

\* C19, amended: status and code in every mode; the details are the ordered
\* list outside development; in development they are an object whose
\* properties "0", "1", ... are the entries of the list in order, with the
\* stack of the fault added.
C19_FieldList ==
    ValidationFailureTranslated =>
        /\ LastWrite.status = 400
        /\ Body.httpStatus = 400
        /\ Body.errorCode = "DB_VALIDATION_ERROR"
        /\ IF NODE_ENV = "development" /\ thrown.stack # ""
           THEN /\ Body.details.kind = "object"
                /\ DOMAIN Body.details.fields =
                      {IndexKey(i - 1) : i \in 1..Len(thrown.errors)} \cup {"stack"}
                /\ \A i \in 1..Len(thrown.errors) :
                      Body.details.fields[IndexKey(i - 1)] = FieldList.items[i]
                /\ Body.details.fields.stack = thrown.stack
           ELSE DetailsOf(Body) = FieldList

C19_Witness ==
    /\ ValidationFailureTranslated
    /\ NODE_ENV = "test"
    /\ Len(thrown.errors) = 2
    /\ thrown.errors[1].path = "age" /\ thrown.errors[2].path = "email"
    /\ Body.details.items[1].field = "age"

\* this step is the failure of the connectDatabase() the listen callback
\* awaits: the promise of the callback rejects and nothing handles it
ConnectFails ==
    /\ proc = "running"
    /\ inflight # <<>>
    /\ Head(inflight).op = "connectDatabase"
    /\ inflight' = Tail(inflight)
    /\ lastEvent' # lastEvent

\* what the failure of connectDatabase does in the step it happens: the
\* fault is the Error made by the catch of connectDatabase, it arrives as an
\* unhandledRejection at every registered listener, the process goes on
\* running, and an exit timer of 1000 ms is pending in production only
ConnectFailureSurfaces ==
    [][ConnectFails =>
          /\ Head(inflight).fault.proto = "Error"
          /\ Head(inflight).fault.message = "Error connecting to MongoDB"
          /\ lastEvent'.name = "unhandledRejection"
          /\ lastEvent'.ran >= 1
          /\ proc' = "running"
          /\ IF NODE_ENV = "production"
             THEN /\ timers' # <<>>
                  /\ \A i \in 1..Len(timers') : timers'[i] = [delay |-> 1000, waited |-> 0]
             ELSE timers' = <<>>]_vars

\* outside production the rejection ends nothing: no timer ends the process
\* and, between requests, the process that saw the rejection is running and
\* takes the next request
NoExitOutsideProduction ==
    /\ [][NODE_ENV # "production" => ~ExitsByTimer]_vars
    /\ [](NODE_ENV # "production" /\ lastEvent.name = "unhandledRejection"
            => proc = "running" /\ timers = <<>>)

\* C21, as stated: a failure of connectDatabase at startup surfaces as an
\* unhandled rejection; in production the process then eventually exits with
\* status 1 after the grace delay; outside production the process never
\* exits because of it and keeps accepting requests.
C21_ConnectFailureAsStated ==
    /\ ConnectFailureSurfaces
    /\ [][(GracePending /\ Exits) =>
            exitCode' = 1 /\ \E i \in 1..Len(timers) : timers[i].waited >= 1000]_vars
    /\ GracePending ~> (proc = "exited" /\ exitCode = 1)
    /\ NoExitOutsideProduction

\* C21, amended: the same, except that in production the process exits
\* with status 1 after the grace delay only when nothing ends it sooner:
\* SIGTERM or SIGINT during the delay ends it with status 0, an uncaught
\* exception with status 1 at once; in each case it ends.
C21_ConnectFailure ==
    /\ ConnectFailureSurfaces
    /\ [][(GracePending /\ Exits) =>
            \/ /\ lastEvent' = lastEvent
               /\ exitCode' = 1
               /\ \E i \in 1..Len(timers) : timers[i].waited >= 1000
            \/ lastEvent'.name = "uncaughtException" /\ exitCode' = 1
            \/ lastEvent'.name \in {"SIGTERM", "SIGINT"} /\ exitCode' = 0]_vars
    /\ GracePending ~> proc = "exited"
    /\ NoExitOutsideProduction

\* in production the process ended with status 1 by the timer of the
\* failed connectDatabase, having answered a request of a route meanwhile
C21_Witness ==
    /\ NODE_ENV = "production"
    /\ lastEvent.name = "unhandledRejection"
    /\ proc = "exited" /\ exitCode = 1
    /\ inflight = <<>>
    /\ pc = "settled" /\ Ran("route")

\* the values process.env[key] and defaultValue can take
EnvValues == {Unset, Set(""), Set("production"), Set("3000")}
DefaultValues == {Unset, Set(""), Set("development")}

\* getEnv on its own: it returns the value that is set and not empty, the
\* default that is not empty when the variable is not set, and otherwise
\* throws Missing env variable, in particular for a variable set to the
\* empty string whatever the default; it never returns an empty string
GetEnvContract ==
    \A v \in EnvValues, d \in DefaultValues :
        LET r == getEnv("PORT", v, d) IN
        /\ ~r.throws => r.value # ""
        /\ (v[1] /\ v[2] # "") => (~r.throws /\ r.value = v[2])
        /\ (~v[1] /\ d[1] /\ d[2] # "") => (~r.throws /\ r.value = d[2])
        /\ ((v[1] /\ v[2] = "") \/ (~v[1] /\ (~d[1] \/ d[2] = "")))
              => (r.throws /\ r.message = "Missing env variable: PORT")

\* the variable is missing: not set, or set to the empty string
Missing(k) == ~environ[k][1] \/ environ[k][2] = ""

\* the configuration was evaluated
Evaluated == proc # "importing"

\* C22: getEnv never returns an empty value: the value set, else the
\* default, else Missing env variable (also for a variable set to the empty
\* string that has a default); when JWT_SECRET or JWT_REFRESH_SECRET is
\* missing the process ends while the configuration is loaded, with no
\* process handler registered and without ever listening.
C22_ConfigOrFail ==
    /\ GetEnvContract
    /\ (Evaluated /\ Env # NoEnv) =>
          \A i \in 1..Len(EnvEntries) :
             LET k == EnvEntries[i].key IN
             /\ Env[k] # ""
             /\ Env[k] = IF environ[k][1] THEN environ[k][2] ELSE EnvEntries[i].default[2]
    /\ (Evaluated /\ \E i \in 1..Len(EnvEntries) :
                        Missing(EnvEntries[i].key)
                        /\ (environ[EnvEntries[i].key][1] \/ ~EnvEntries[i].default[1])) =>
          /\ Env = NoEnv
          /\ thrown.proto = "Error"
          /\ \E k \in EnvKeys : Missing(k) /\ thrown.message = "Missing env variable: " \o k
    /\ (Evaluated /\ (Missing("JWT_SECRET") \/ Missing("JWT_REFRESH_SECRET"))) =>
          /\ proc = "exited"
          /\ exitCode = 1
          /\ listeners = [e \in Events |-> 0]
          /\ lastEvent = NoEvent
          /\ inflight = <<>>
          /\ pc = "idle" /\ res = <<>>

\* the refresh secret alone is missing: loading stopped at its getEnv
C22_Witness ==
    /\ Evaluated
    /\ environ["NODE_ENV"] = Set("production")
    /\ environ["PORT"] = Set("3000")
    /\ ~Missing("JWT_SECRET")
    /\ Missing("JWT_REFRESH_SECRET")
    /\ proc = "exited"
    /\ thrown.message = "Missing env variable: JWT_REFRESH_SECRET"

====
